---- MODULE Spec2Model ----
(***************************************************************************)
(* A model of the 3D-chess game store (zustand store, latest revision),    *)
(* its ChessGame wrapper around the chess.js rules library, and the        *)
(* /api/chess/parse-move endpoint that resolves a notation token to a      *)
(* (from, to, promotion) triple.                                           *)
(*                                                                         *)
(* Strings the code inspects character by character (move notation, SAN)  *)
(* are sequences of one-character strings.  Squares are 0..63 with         *)
(* square = row * 8 + col and row 0 = rank 8, as in gameState.board.       *)
(***************************************************************************)
EXTENDS Integers, Sequences, FiniteSets, TLC

Null == "null"

\* null where the code holds an object: no game state, no move
NoState == [isNull |-> TRUE]
NoMove == [isNull |-> TRUE]

(***************************************************************************)
(* Characters and squares                                                  *)
(***************************************************************************)
FileChars == <<"a", "b", "c", "d", "e", "f", "g", "h">>
RankChars == <<"8", "7", "6", "5", "4", "3", "2", "1">>
Squares == 0..63

RowOf(s) == s \div 8
ColOf(s) == s % 8
OnBoard(r, c) == r >= 0 /\ r <= 7 /\ c >= 0 /\ c <= 7
At(r, c) == r * 8 + c

\* algebraic(): the two-character name of a square
SqName(s) == <<FileChars[ColOf(s) + 1], RankChars[RowOf(s) + 1]>>

\* algebraicToCoords(): the square named by a file and a rank character
SqOf(f, r) ==
  At((CHOOSE i \in 1..8 : RankChars[i] = r) - 1,
     (CHOOSE i \in 1..8 : FileChars[i] = f) - 1)

Abs(x) == IF x < 0 THEN -x ELSE x
Sign(x) == IF x < 0 THEN -1 ELSE IF x > 0 THEN 1 ELSE 0

RECURSIVE FlattenFrom(_, _)
FlattenFrom(ss, i) ==
  IF i > Len(ss) THEN <<>> ELSE ss[i] \o FlattenFrom(ss, i + 1)

\* the concatenation of a sequence of sequences
Flatten(ss) == FlattenFrom(ss, 1)

Contains(s, x) == \E i \in 1..Len(s) : s[i] = x

\* the least element of a non-empty set of integers, 0 for the empty set
Least(S) == IF S = {} THEN 0 ELSE CHOOSE i \in S : \A j \in S : i <= j

(***************************************************************************)
(* The rules oracle (chess.js): positions, move generation, SAN            *)
(***************************************************************************)
NoPiece == [c |-> "-", t |-> "-"]
Pc(c, t) == [c |-> c, t |-> t]
Other(c) == IF c = "w" THEN "b" ELSE "w"
NoSquare == 64

\* a board from a set of <<file, rank, color, type>> placements
BoardOf(placed) ==
  [s \in Squares |->
     IF \E p \in placed : SqOf(p[1], p[2]) = s
     THEN LET p == CHOOSE q \in placed : SqOf(q[1], q[2]) = s IN Pc(p[3], p[4])
     ELSE NoPiece]

\* chess.js PIECE_OFFSETS, as (row, col) steps, in the library's order
OffsetsOf(t) ==
  CASE t = "n" -> << <<-1, -2>>, <<-2, -1>>, <<-2, 1>>, <<-1, 2>>, <<1, 2>>, <<2, 1>>, <<2, -1>>, <<1, -2>> >>
    [] t = "b" -> << <<-1, -1>>, <<-1, 1>>, <<1, 1>>, <<1, -1>> >>
    [] t = "r" -> << <<-1, 0>>, <<0, 1>>, <<1, 0>>, <<0, -1>> >>
    [] OTHER -> << <<-1, -1>>, <<-1, 0>>, <<-1, 1>>, <<0, 1>>, <<1, 1>>, <<1, 0>>, <<1, -1>>, <<0, -1>> >>

\* chess.js PROMOTIONS
Promotions == <<"n", "b", "r", "q">>

Mv(from, to, piece, flag, promo) ==
  [from |-> from, to |-> to, piece |-> piece, flag |-> flag, promo |-> promo]

\* are the squares strictly between two aligned squares all empty
ClearBetween(board, a, dr, dc) ==
  \A k \in 1..((IF Abs(dr) > Abs(dc) THEN Abs(dr) ELSE Abs(dc)) - 1) :
     board[At(RowOf(a) + k * Sign(dr), ColOf(a) + k * Sign(dc))] = NoPiece

\* does a piece p that is dr rows and dc columns away attack (chess.js _attacked)
Reaches(board, p, s, dr, dc) ==
  CASE p.t = "p" -> Abs(dc) = 1 /\ dr = (IF p.c = "w" THEN -1 ELSE 1)
    [] p.t = "n" -> {Abs(dr), Abs(dc)} = {1, 2}
    [] p.t = "k" -> Abs(dr) <= 1 /\ Abs(dc) <= 1
    [] OTHER -> /\ \/ p.t \in {"r", "q"} /\ (dr = 0 \/ dc = 0)
                   \/ p.t \in {"b", "q"} /\ Abs(dr) = Abs(dc)
                /\ ClearBetween(board, s, dr, dc)

\* does the piece on square s attack square t
AttacksSq(board, s, t) ==
  /\ board[s] # NoPiece
  /\ s # t
  /\ Reaches(board, board[s], s, RowOf(t) - RowOf(s), ColOf(t) - ColOf(s))

Attacked(board, by, t) ==
  \E s \in Squares : board[s].c = by /\ AttacksSq(board, s, t)

\* the king's square, NoSquare when the board has no such king
KingOf(ks) == IF ks = {} THEN NoSquare ELSE CHOOSE s \in ks : TRUE
KingSq(board, c) == KingOf({s \in Squares : board[s] = Pc(c, "k")})

AttackedKing(board, by, k) == k # NoSquare /\ Attacked(board, by, k)
KingAttacked(board, c) == AttackedKing(board, Other(c), KingSq(board, c))

\* addMove: one move, or one per promotion piece for a pawn reaching the last rank
AddMove(from, to, t, flag) ==
  IF t = "p" /\ RowOf(to) \in {0, 7}
  THEN [i \in 1..4 |-> Mv(from, to, "p", flag, Promotions[i])]
  ELSE <<Mv(from, to, t, flag, "-")>>

\* a pawn's capture towards column c + dc
PawnCapture(pos, from, us, r, c, dc) ==
  IF ~OnBoard(r, c + dc) THEN <<>>
  ELSE IF pos.board[At(r, c + dc)].c = Other(us)
  THEN AddMove(from, At(r, c + dc), "p", "c")
  ELSE IF At(r, c + dc) = pos.ep
  THEN <<Mv(from, At(r, c + dc), "p", "e", "-")>>
  ELSE <<>>

\* a pawn's pushes: d is its direction, home its starting row
PawnPushes(pos, from, r, c, d, home) ==
  IF ~OnBoard(r + d, c) \/ pos.board[At(r + d, c)] # NoPiece THEN <<>>
  ELSE AddMove(from, At(r + d, c), "p", "n")
       \o (IF r = home /\ pos.board[At(r + 2 * d, c)] = NoPiece
           THEN <<Mv(from, At(r + 2 * d, c), "p", "b", "-")>> ELSE <<>>)

PawnMovesOf(pos, from, us, r, c, d) ==
  PawnPushes(pos, from, r, c, d, IF us = "w" THEN 6 ELSE 1)
  \o Flatten([i \in 1..2 |->
                PawnCapture(pos, from, us, r + d, c, IF i = 1 THEN d ELSE -d)])

PawnMoves(pos, from) ==
  PawnMovesOf(pos, from, pos.board[from].c, RowOf(from), ColOf(from),
              IF pos.board[from].c = "w" THEN -1 ELSE 1)

\* the moves along one offset from (r, c): one step for a knight or a king
RECURSIVE RayMoves(_, _, _, _, _)
RayMoves(pos, from, r, c, off) ==
  IF ~OnBoard(r + off[1], c + off[2]) THEN <<>>
  ELSE IF pos.board[At(r + off[1], c + off[2])] = NoPiece
  THEN <<Mv(from, At(r + off[1], c + off[2]), pos.board[from].t, "n", "-")>>
       \o (IF pos.board[from].t \in {"n", "k"} THEN <<>>
           ELSE RayMoves(pos, from, r + off[1], c + off[2], off))
  ELSE IF pos.board[At(r + off[1], c + off[2])].c = pos.board[from].c THEN <<>>
  ELSE <<Mv(from, At(r + off[1], c + off[2]), pos.board[from].t, "c", "-")>>

PieceMovesBy(pos, from, offs) ==
  Flatten([i \in 1..Len(offs) |->
             RayMoves(pos, from, RowOf(from), ColOf(from), offs[i])])

PieceMoves(pos, from) == PieceMovesBy(pos, from, OffsetsOf(pos.board[from].t))

\* castling towards side ("k" or "q"): dir is the king's direction and far
\* the number of squares between king and rook
CastlingTo(pos, from, right, side, dir, far) ==
  IF /\ right \in pos.castle
     /\ \A k \in 1..far : pos.board[from + k * dir] = NoPiece
     /\ \A k \in 0..2 : ~Attacked(pos.board, Other(pos.turn), from + k * dir)
  THEN <<Mv(from, from + 2 * dir, "k", side, "-")>> ELSE <<>>

CastlingMoves(pos, from) ==
  Flatten([i \in 1..2 |->
             IF i = 1
             THEN CastlingTo(pos, from, IF pos.turn = "w" THEN "K" ELSE "k",
                             "k", 1, 2)
             ELSE CastlingTo(pos, from, IF pos.turn = "w" THEN "Q" ELSE "q",
                             "q", -1, 3)])

\* the castling rights a move from or to a corner, or of the king, removes
LostRights(us, m) ==
  (IF m.piece = "k" THEN (IF us = "w" THEN {"K", "Q"} ELSE {"k", "q"}) ELSE {})
  \cup (IF 63 \in {m.from, m.to} THEN {"K"} ELSE {})
  \cup (IF 56 \in {m.from, m.to} THEN {"Q"} ELSE {})
  \cup (IF 7 \in {m.from, m.to} THEN {"k"} ELSE {})
  \cup (IF 0 \in {m.from, m.to} THEN {"q"} ELSE {})

\* the board after a move: the piece placed, then the en-passant victim
\* removed or the castling rook moved
BoardAfter(placed, us, m) ==
  CASE m.flag = "e" ->
         [placed EXCEPT ![IF us = "b" THEN m.to - 8 ELSE m.to + 8] = NoPiece]
    [] m.flag = "k" ->
         [placed EXCEPT ![m.to + 1] = NoPiece, ![m.to - 1] = Pc(us, "r")]
    [] m.flag = "q" ->
         [placed EXCEPT ![m.to - 2] = NoPiece, ![m.to + 1] = Pc(us, "r")]
    [] OTHER -> placed

\* the position after a (pseudo-legal) move: chess.js _makeMove
ApplyMove(pos, m) ==
  [board |-> BoardAfter([pos.board EXCEPT
                           ![m.from] = NoPiece,
                           ![m.to] = IF m.promo # "-" THEN Pc(pos.turn, m.promo)
                                     ELSE pos.board[m.from]],
                        pos.turn, m),
   turn |-> Other(pos.turn),
   castle |-> pos.castle \ LostRights(pos.turn, m),
   ep |-> IF m.flag = "b"
          THEN (IF pos.turn = "b" THEN m.to - 8 ELSE m.to + 8) ELSE NoSquare]

\* the pseudo-legal moves of the piece on one square, in generation order
SquareMoves(pos, from) ==
  IF pos.board[from].c # pos.turn THEN <<>>
  ELSE IF pos.board[from].t = "p" THEN PawnMoves(pos, from)
  ELSE PieceMoves(pos, from)
       \o (IF pos.board[from].t = "k" THEN CastlingMoves(pos, from) ELSE <<>>)

IsLegal(pos, m) == ~KingAttacked(ApplyMove(pos, m).board, pos.turn)

\* chess.js moves({square, verbose: true})
MovesFrom(pos, from) == SelectSeq(SquareMoves(pos, from), LAMBDA m : IsLegal(pos, m))

\* chess.js moves(): every legal move, squares a8..h1
AllMoves(pos) == Flatten([i \in 1..64 |-> MovesFrom(pos, i - 1)])

HasMoves(pos) == \E s \in Squares : MovesFrom(pos, s) # <<>>

InCheck(pos) == KingAttacked(pos.board, pos.turn)

\* chess.js isInsufficientMaterial: K v K, K v K+N, K v K+B (one minor piece)
FewPieces(board, others) ==
  \/ others = {}
  \/ Cardinality(others) = 1 /\ \A s \in others : board[s].t \in {"n", "b"}

InsufficientMaterial(pos) ==
  FewPieces(pos.board,
            {s \in Squares : pos.board[s] # NoPiece /\ pos.board[s].t # "k"})

Upper(t) ==
  CASE t = "n" -> "N" [] t = "b" -> "B" [] t = "r" -> "R"
    [] t = "q" -> "Q" [] t = "k" -> "K" [] OTHER -> "P"

CanReach(ms, to) == \E i \in 1..Len(ms) : ms[i].to = to

\* chess.js getDisambiguator, given the squares of the other pieces of the
\* same kind that can legally move to the same square
DisambiguatorOf(m, rivals) ==
  IF rivals = {} THEN <<>>
  ELSE IF (\E s \in rivals : RowOf(s) = RowOf(m.from))
          /\ (\E s \in rivals : ColOf(s) = ColOf(m.from))
  THEN SqName(m.from)
  ELSE IF \E s \in rivals : ColOf(s) = ColOf(m.from)
  THEN <<SqName(m.from)[2]>>
  ELSE <<SqName(m.from)[1]>>

Disambiguator(pos, m) ==
  DisambiguatorOf(m, {s \in Squares :
                        /\ s # m.from
                        /\ pos.board[s] = pos.board[m.from]
                        /\ CanReach(MovesFrom(pos, s), m.to)})

\* the check or mate mark of the position a move leads to
SanMark(after) ==
  IF ~InCheck(after) THEN <<>>
  ELSE IF HasMoves(after) THEN <<"+">> ELSE <<"#">>

\* chess.js _moveToSan: the SAN of a legal move of pos
San(pos, m) ==
  (IF m.flag = "k" THEN <<"O", "-", "O">>
   ELSE IF m.flag = "q" THEN <<"O", "-", "O", "-", "O">>
   ELSE (IF m.piece # "p"
         THEN <<Upper(m.piece)>> \o Disambiguator(pos, m) ELSE <<>>)
        \o (IF m.flag \in {"c", "e"}
            THEN (IF m.piece = "p" THEN <<SqName(m.from)[1]>> ELSE <<>>)
                 \o <<"x">>
            ELSE <<>>)
        \o SqName(m.to)
        \o (IF m.promo # "-" THEN <<"=", Upper(m.promo)>> ELSE <<>>))
  \o SanMark(ApplyMove(pos, m))

(***************************************************************************)
(* ChessGame: the wrapper class around chess.js                            *)
(***************************************************************************)
\* a ChessGame object: the position, the positions before each applied move
\* (what chess.js keeps to undo) and the applied moves
NewGame(pos) == [pos |-> pos, past |-> <<>>, history |-> <<>>]

\* one entry of getState().validMoves: the destinations in generation order
\* (a promotion square appears once per promotion piece)
EntryOf(from, ms) ==
  IF ms = <<>> THEN <<>>
  ELSE << [from |-> from, tos |-> [k \in 1..Len(ms) |-> ms[k].to]] >>

\* getState().validMoves: one entry per square of the side to move that has
\* a legal move, in board order
ValidMovesOf(pos) ==
  Flatten([i \in 1..64 |-> EntryOf(i - 1, MovesFrom(pos, i - 1))])

StateOf(g, vm, check, few) ==
  [pos |-> g.pos,
   turn |-> g.pos.turn,
   isCheck |-> check,
   isCheckmate |-> check /\ vm = <<>>,
   isDraw |-> (~check /\ vm = <<>>) \/ few,
   isGameOver |-> vm = <<>> \/ few,
   history |-> g.history,
   validMoves |-> vm]

\* ChessGame.getState
GetState(g) ==
  StateOf(g, ValidMovesOf(g.pos), InCheck(g.pos), InsufficientMaterial(g.pos))

\* gameState.validMoves[square] (the empty sequence when there is no entry)
HasEntry(gs, sq) == \E i \in 1..Len(gs.validMoves) : gs.validMoves[i].from = sq

TosOf(gs, sq) ==
  IF HasEntry(gs, sq)
  THEN (gs.validMoves[CHOOSE i \in 1..Len(gs.validMoves) :
                        gs.validMoves[i].from = sq]).tos
  ELSE <<>>

\* the first move of ms to this square whose promotion piece, if it has one,
\* is the one given
FindIn(ms, to, promotion) ==
  IF \E i \in 1..Len(ms) :
       ms[i].to = to /\ (ms[i].promo = "-" \/ ms[i].promo = promotion)
  THEN ms[Least({i \in 1..Len(ms) :
                   ms[i].to = to
                   /\ (ms[i].promo = "-" \/ ms[i].promo = promotion)})]
  ELSE NoMove

\* chess.js move({from, to, promotion}): NoMove where the library throws
ChessFindMove(pos, from, to, promotion) ==
  FindIn(MovesFrom(pos, from), to, promotion)

Failure(g) == [success |-> FALSE, game |-> g, state |-> NoState]
Success(g) == [success |-> TRUE, game |-> g, state |-> GetState(g)]

\* the game once chess.js has played m
Moved(g, m) ==
  [pos |-> ApplyMove(g.pos, m),
   past |-> Append(g.past, g.pos),
   history |-> Append(g.history, m)]

Played(g, m) ==
  IF m = NoMove THEN Failure(g) ELSE Success(Moved(g, m))

\* ChessGame.makeMove
GameMakeMove(g, from, to, promotion) ==
  Played(g, ChessFindMove(g.pos, from, to, promotion))

\* an undo that takes the position back and keeps the move in the history
ChessUndoKeepsHistory(g) ==
  IF g.history = <<>> THEN g
  ELSE [g EXCEPT !.pos = g.past[Len(g.past)],
                 !.past = SubSeq(g.past, 1, Len(g.past) - 1)]

\* chess.js undo(): returns null when there is nothing to undo, does not throw
ChessUndo(g) ==
  IF g.history = <<>> THEN g
  ELSE [pos |-> g.past[Len(g.past)],
        past |-> SubSeq(g.past, 1, Len(g.past) - 1),
        history |-> SubSeq(g.history, 1, Len(g.history) - 1)]

\* ChessGame.undoMove: it reports success whether or not a move was undone
GameUndoMove(g) == Success(ChessUndo(g))

(***************************************************************************)
(* String helpers (JavaScript string and regular-expression operations)    *)
(***************************************************************************)
UpperLetters == <<"A", "B", "C", "D", "E", "F", "G", "H", "I", "J", "K", "L", "M",
                  "N", "O", "P", "Q", "R", "S", "T", "U", "V", "W", "X", "Y", "Z">>
LowerLetters == <<"a", "b", "c", "d", "e", "f", "g", "h", "i", "j", "k", "l", "m",
                  "n", "o", "p", "q", "r", "s", "t", "u", "v", "w", "x", "y", "z">>

\* String.prototype.toLowerCase, one character
LowerChar(c) ==
  IF \E i \in 1..26 : UpperLetters[i] = c
  THEN LowerLetters[CHOOSE i \in 1..26 : UpperLetters[i] = c]
  ELSE c

ToLower(s) == [i \in 1..Len(s) |-> LowerChar(s[i])]

IsFile(c) == c \in {"a", "b", "c", "d", "e", "f", "g", "h"}
IsRank(c) == c \in {"1", "2", "3", "4", "5", "6", "7", "8"}
IsPieceLetter(c) == c \in {"K", "Q", "R", "B", "N"}

\* is s[i], s[i+1] a square name
SquareAt(s, i) == i >= 1 /\ i + 1 <= Len(s) /\ IsFile(s[i]) /\ IsRank(s[i + 1])

IsSquareName(s) == Len(s) = 2 /\ SquareAt(s, 1)

\* the lower-cased character at index k, "" outside the string
CharAt(s, k) == IF k >= 1 /\ k <= Len(s) THEN LowerChar(s[k]) ELSE ""

\* String.prototype.trim
Trim(s) ==
  IF \A i \in 1..Len(s) : s[i] = " " THEN <<>>
  ELSE SubSeq(s, CHOOSE i \in 1..Len(s) :
                   s[i] # " " /\ \A j \in 1..(i - 1) : s[j] = " ",
                 CHOOSE i \in 1..Len(s) :
                   s[i] # " " /\ \A j \in (i + 1)..Len(s) : s[j] = " ")

\* replace(/\.$/, "")
StripPeriod(s) ==
  IF s # <<>> /\ s[Len(s)] = "." THEN SubSeq(s, 1, Len(s) - 1) ELSE s

\* replace(/[!?]+$/, "")
StripEval(s) ==
  IF \A i \in 1..Len(s) : s[i] \in {"!", "?"} THEN <<>>
  ELSE SubSeq(s, 1, CHOOSE i \in 1..Len(s) :
                      /\ s[i] \notin {"!", "?"}
                      /\ \A j \in (i + 1)..Len(s) : s[j] \in {"!", "?"})

\* replace(/\s.*$/, "")
CutAtSpace(s) ==
  IF \A i \in 1..Len(s) : s[i] # " " THEN s
  ELSE SubSeq(s, 1, Least({i \in 1..Len(s) : s[i] = " "}) - 1)

\* replace(/[+#]$/, "")
StripCheck(s) ==
  IF s # <<>> /\ s[Len(s)] \in {"+", "#"} THEN SubSeq(s, 1, Len(s) - 1) ELSE s

\* String.prototype.includes for a substring
Includes(s, sub) ==
  \E i \in 1..(Len(s) - Len(sub) + 1) : SubSeq(s, i, i + Len(sub) - 1) = sub


FirstIdx(s, c) == Least({i \in 1..Len(s) : s[i] = c})

CountChar(s, c) == Cardinality({i \in 1..Len(s) : s[i] = c})

\* the part after the only occurrence of c: split(c)[1] when split(c).length = 2
AfterChar(s, c) == SubSeq(s, FirstIdx(s, c) + 1, Len(s))

\* /^(O-O|O-O-O|0-0|0-0-0)$/i and /^(O-O|0-0)$/i
IsKingsideToken(s) == ToLower(s) \in {<<"o", "-", "o">>, <<"0", "-", "0">>}
IsQueensideToken(s) ==
  ToLower(s) \in {<<"o", "-", "o", "-", "o">>, <<"0", "-", "0", "-", "0">>}
IsCastlingToken(s) == IsKingsideToken(s) \/ IsQueensideToken(s)

\* the squares the castling branches name for the side to move
CastlingFrom(turn) == IF turn = "w" THEN SqOf("e", "1") ELSE SqOf("e", "8")

\* the castling branches with the two wings exchanged
CastlingDestSwapped(turn, kingside) ==
  IF kingside
  THEN (IF turn = "w" THEN SqOf("c", "1") ELSE SqOf("c", "8"))
  ELSE (IF turn = "w" THEN SqOf("g", "1") ELSE SqOf("g", "8"))

CastlingDest(turn, kingside) ==
  IF kingside
  THEN (IF turn = "w" THEN SqOf("g", "1") ELSE SqOf("g", "8"))
  ELSE (IF turn = "w" THEN SqOf("c", "1") ELSE SqOf("c", "8"))

(***************************************************************************)
(* The move-parsing endpoint: POST /api/chess/parse-move                   *)
(***************************************************************************)
\* warning: the "Warning: Ambiguous move" line was logged before the answer
ParseOk(from, to, promotion) ==
  [ok |-> TRUE, from |-> from, to |-> to, promotion |-> promotion,
   warning |-> FALSE]
ParseError ==
  [ok |-> FALSE, from |-> NoSquare, to |-> NoSquare, promotion |-> Null,
   warning |-> FALSE]

\* /([a-h][1-8])([a-h][1-8])/: the start of the leftmost match, or 0
DirectMatchAt(s) ==
  Least({i \in 1..Len(s) : SquareAt(s, i) /\ SquareAt(s, i + 2)})

\* /([NBRQK]?)([a-h][1-8])-([a-h][1-8])/: the start of the from-square of the
\* leftmost match, or 0
ExtendedMatchAt(s) ==
  Least({i \in 1..Len(s) :
           SquareAt(s, i) /\ i + 2 <= Len(s) /\ s[i + 2] = "-"
           /\ SquareAt(s, i + 3)})

\* the squares a match at index i with the to-square at index j names
SquaresAt(s, i, j) ==
  ParseOk(SqOf(s[i], s[i + 1]), SqOf(s[j], s[j + 1]), Null)

\* one pair of the enumeration loop that leaves the test move on the game
EnumPairNoUndo(acc, gs, from, to, m) ==
  IF m = NoMove THEN [acc EXCEPT !.k = @ + 1]
  ELSE [game |-> Moved(acc.game, m),
        all |-> Append(acc.all,
                  [from |-> from, to |-> to, san |-> San(acc.game.pos, m),
                   piece |-> gs.pos.board[from].t, promotion |-> Null]),
        k |-> acc.k + 1]

\* one pair of the enumeration loop: m is what game.makeMove(from, to), called
\* without a promotion piece, played (NoMove when it was rejected); a move
\* that was played is recorded with its SAN and undone with game.undoMove()
EnumPair(acc, gs, from, to, m) ==
  IF m = NoMove THEN [acc EXCEPT !.k = @ + 1]
  ELSE [game |-> ChessUndo(Moved(acc.game, m)),
        all |-> Append(acc.all,
                  [from |-> from, to |-> to, san |-> San(acc.game.pos, m),
                   piece |-> gs.pos.board[from].t, promotion |-> Null]),
        k |-> acc.k + 1]

\* the loop over the (from, to) pairs of gameState.validMoves; acc.k counts
\* the pairs tried
RECURSIVE EnumLoop(_, _, _)
EnumLoop(acc, gs, pairs) ==
  IF acc.k >= Len(pairs) THEN acc
  ELSE EnumLoop(EnumPair(acc, gs, pairs[acc.k + 1][1], pairs[acc.k + 1][2],
                         ChessFindMove(acc.game.pos, pairs[acc.k + 1][1],
                                       pairs[acc.k + 1][2], Null)),
                gs, pairs)

\* the enumeration on the temporary game new ChessGame(gameState.fen): the
\* game it leaves and allValidMoves
Enumeration(gs) ==
  EnumLoop([game |-> NewGame(gs.pos), all |-> <<>>, k |-> 0], gs,
           Flatten([i \in 1..Len(gs.validMoves) |->
                      [k \in 1..Len(gs.validMoves[i].tos) |->
                         <<gs.validMoves[i].from, gs.validMoves[i].tos[k]>>]]))

AllValidMoves(gs) == Enumeration(gs).all

\* /^[NBRQK][a-h][1-8]$/
IsPieceAndDest(s) ==
  Len(s) = 3 /\ IsPieceLetter(s[1]) /\ IsFile(s[2]) /\ IsRank(s[3])

\* /^([NBRQK])([a-h1-8])([a-h][1-8])$/
IsDisambiguated(s) ==
  Len(s) = 4 /\ IsPieceLetter(s[1]) /\ (IsFile(s[2]) \/ IsRank(s[2]))
  /\ IsFile(s[3]) /\ IsRank(s[4])

\* the predicate of allValidMoves.find
SanMatches(m, cleanMove) ==
  \/ m.san = cleanMove
  \/ ToLower(m.san) = ToLower(cleanMove)
  \/ StripCheck(m.san) = cleanMove
  \/ /\ IsPieceAndDest(cleanMove)
     /\ m.san[1] = cleanMove[1]
     /\ Includes(m.san, SubSeq(cleanMove, 2, 3))

\* cleanMove.split("=")[1].charAt(0).toLowerCase(); the empty string is falsy
PromotionOf(cleanMove) ==
  IF FirstIdx(cleanMove, "=") = 0 THEN Null
  ELSE IF CharAt(cleanMove, FirstIdx(cleanMove, "=") + 1) \in {"", "="} THEN Null
  ELSE CharAt(cleanMove, FirstIdx(cleanMove, "=") + 1)

\* possibleMoves: several candidates; the disambiguation pattern needs four
\* characters, so it cannot match a token that matched pieceAndDestMatch
PickPossible(cleanMove, possible, filtered) ==
  IF Len(filtered) = 1
  THEN ParseOk(filtered[1].from, filtered[1].to, filtered[1].promotion)
  ELSE [ParseOk(possible[1].from, possible[1].to, possible[1].promotion)
          EXCEPT !.warning = TRUE]

\* the pawn-move branch and the final error
PawnOrError(cleanMove, pawns) ==
  IF IsSquareName(cleanMove) /\ Len(pawns) = 1
  THEN ParseOk(pawns[1].from, pawns[1].to, Null)
  ELSE ParseError

\* the branch taken when no candidate matches
Unmatched(gs, cleanMove, all, possible) ==
  IF IsPieceAndDest(cleanMove) /\ Len(possible) = 1
  THEN ParseOk(possible[1].from, possible[1].to, possible[1].promotion)
  ELSE IF IsPieceAndDest(cleanMove) /\ Len(possible) > 1
  THEN PickPossible(cleanMove, possible,
         IF IsDisambiguated(cleanMove)
         THEN SelectSeq(possible, LAMBDA m :
                IF IsFile(cleanMove[2])
                THEN SqName(m.from)[1] = cleanMove[2]
                ELSE SqName(m.from)[2] = cleanMove[2])
         ELSE <<>>)
  ELSE IF IsCastlingToken(cleanMove)
  THEN ParseOk(CastlingFrom(gs.turn),
               CastlingDest(gs.turn, IsKingsideToken(cleanMove)), Null)
  ELSE PawnOrError(cleanMove,
         SelectSeq(all, LAMBDA m : SqName(m.to) = cleanMove /\ m.piece = "p"))

ParseUnmatched(gs, cleanMove, all) ==
  Unmatched(gs, cleanMove, all,
            SelectSeq(all, LAMBDA m :
              IsPieceAndDest(cleanMove) /\ m.san[1] = cleanMove[1]
              /\ SqName(m.to) = SubSeq(cleanMove, 2, 3)))

\* the answer once allValidMoves.find has run: hit is the index found, or 0
Matched(gs, cleanMove, all, hit) ==
  IF hit = 0 THEN ParseUnmatched(gs, cleanMove, all)
  ELSE ParseOk(all[hit].from, all[hit].to, PromotionOf(cleanMove))

Enumerated(gs, cleanMove, all) ==
  Matched(gs, cleanMove, all,
          Least({i \in 1..Len(all) : SanMatches(all[i], cleanMove)}))

\* the answer for a trimmed token: d and e are the matches of the two
\* coordinate patterns
ParseClean(gs, cleanMove, d, e) ==
  IF d # 0 THEN SquaresAt(cleanMove, d, d + 2)
  ELSE IF e # 0 THEN SquaresAt(cleanMove, e, e + 3)
  ELSE Enumerated(gs, cleanMove, AllValidMoves(gs))

\* POST: the response for {gameState, moveNotation}
ParseMove(gs, moveNotation) ==
  IF moveNotation = <<>> THEN ParseError
  ELSE ParseClean(gs, Trim(moveNotation), DirectMatchAt(Trim(moveNotation)),
                  ExtendedMatchAt(Trim(moveNotation)))

(***************************************************************************)
(* The store's helpers: makeAIMove and its fallback heuristics             *)
(***************************************************************************)
\* the notation clean-up of makeAIMove
CleanedMove(moveNotation) ==
  CutAtSpace(StripEval(StripPeriod(Trim(moveNotation))))

\* the greatest element of a non-empty set of naturals, -1 for the empty set
Greatest(S) == IF S = {} THEN -1 ELSE CHOOSE n \in S : \A k \in S : n >= k

\* [KQRBN]?[a-h]?[1-8]?x?[a-h][1-8] at index i with the optional parts chosen
\* by the bits of n (piece 8, file 4, rank 2, capture 1)
Fits(s, i, p, f, r, x) ==
  /\ (p = 1 => CharAt(s, i) \in {"k", "q", "r", "b", "n"})
  /\ (f = 1 => IsFile(CharAt(s, i + p)))
  /\ (r = 1 => IsRank(CharAt(s, i + p + f)))
  /\ (x = 1 => CharAt(s, i + p + f + r) = "x")
  /\ IsFile(CharAt(s, i + p + f + r + x))
  /\ IsRank(CharAt(s, i + p + f + r + x + 1))

\* the index after the destination square for choice n, 0 when nothing fits
CoreEndOf(i, n) ==
  IF n < 0 THEN 0
  ELSE i + (n \div 8) + ((n \div 4) % 2) + ((n \div 2) % 2) + (n % 2) + 2

\* the first alternative of movePattern at index i, the optional parts taken
\* greedily
CoreEnd(s, i) ==
  CoreEndOf(i, Greatest({n \in 0..15 :
                           Fits(s, i, n \div 8, (n \div 4) % 2, (n \div 2) % 2,
                                n % 2)}))

\* (?:=[QRBN])? and [+#]? after the destination square
AfterPromotion(s, k) ==
  IF CharAt(s, k) = "=" /\ CharAt(s, k + 1) \in {"q", "r", "b", "n"}
  THEN k + 2 ELSE k
AfterMark(s, k) == IF CharAt(s, k) \in {"+", "#"} THEN k + 1 ELSE k

\* O-O(?:-O)? or 0-0(?:-0)? at index i: the index after the match, or 0
CastleEnd(s, i, c) ==
  IF ~(CharAt(s, i) = c /\ CharAt(s, i + 1) = "-" /\ CharAt(s, i + 2) = c)
  THEN 0
  ELSE IF CharAt(s, i + 3) = "-" /\ CharAt(s, i + 4) = c THEN i + 5
  ELSE i + 3

PatternEndOf(s, i, core) ==
  IF core # 0 THEN AfterMark(s, AfterPromotion(s, core))
  ELSE IF CastleEnd(s, i, "o") # 0 THEN CastleEnd(s, i, "o")
  ELSE CastleEnd(s, i, "0")

\* the index after the whole match of movePattern at index i, or 0
PatternEnd(s, i) == PatternEndOf(s, i, CoreEnd(s, i))

Extracted(text, first) ==
  IF first = 0 THEN CutAtSpace(Trim(text))
  ELSE SubSeq(text, first, PatternEnd(text, first) - 1)

extractMoveNotation(text) ==
  Extracted(text, Least({i \in 1..Len(text) : PatternEnd(text, i) # 0}))

\* is there a piece of this type of the side to move on gameState.board (the
\* find() in the heuristics compares from === from, so it does not look at
\* the entry's square)
HasPieceOfType(gs, t) == \E s \in Squares : gs.pos.board[s] = Pc(gs.turn, t)

\* one loop over gameState.validMoves: a (from, dest, promotion) try for each
\* entry whose destinations include dest
TriesTo(gs, dest, promotion) ==
  Flatten([i \in 1..Len(gs.validMoves) |->
             IF Contains(gs.validMoves[i].tos, dest)
             THEN << <<gs.validMoves[i].from, dest, promotion>> >>
             ELSE <<>>])

EntryTries(gs, destName, promotion) ==
  IF ~IsSquareName(destName) THEN <<>>
  ELSE TriesTo(gs, SqOf(destName[1], destName[2]), promotion)

\* /([a-h][18])=([QRBN])/i: the start of the leftmost match, or 0
PromotionMatchAt(s) ==
  Least({i \in 1..(Len(s) - 3) :
           /\ IsFile(LowerChar(s[i]))
           /\ s[i + 1] \in {"1", "8"}
           /\ s[i + 2] = "="
           /\ LowerChar(s[i + 3]) \in {"q", "r", "b", "n"}})

\* /=([QRBN])/i: the lower-cased letter of the leftmost match, or Null
PromotionLetterAt(s, k) == IF k = 0 THEN Null ELSE LowerChar(s[k + 1])
PromotionLetter(s) ==
  PromotionLetterAt(s, Least({i \in 1..(Len(s) - 1) :
                                s[i] = "=" /\ LowerChar(s[i + 1])
                                                \in {"q", "r", "b", "n"}}))

\* /([a-h][1-8])(?:=[QRBN])?[+#]?$/: the destination square text, or <<>>
DestOf(u) ==
  IF Len(u) >= 2 /\ SquareAt(u, Len(u) - 1)
  THEN SubSeq(u, Len(u) - 1, Len(u)) ELSE <<>>
DestBefore(t) ==
  DestOf(IF Len(t) >= 2 /\ t[Len(t) - 1] = "=" /\ t[Len(t)] \in {"Q", "R", "B", "N"}
         THEN SubSeq(t, 1, Len(t) - 2) ELSE t)
DestMatch(s) == DestBefore(StripCheck(s))

\* /^([KQRBNP])/ through pieceMap, pawn by default
PieceTypeOf(s) ==
  IF s # <<>> /\ s[1] \in {"K", "Q", "R", "B", "N", "P"}
  THEN LowerChar(s[1]) ELSE "p"

\* Case 2: pawn promotion notation matched at index pm
PromotionTries(cleanMove, gs, pm) ==
  IF pm # 0 /\ HasPieceOfType(gs, "p")
  THEN EntryTries(gs, SubSeq(cleanMove, pm, pm + 1), LowerChar(cleanMove[pm + 3]))
  ELSE <<>>

\* Case 3: the moves of the pieces of the notation's type to its destination
PieceTries(cleanMove, gs, pieceType, dest) ==
  IF dest # <<>> /\ HasPieceOfType(gs, pieceType)
  THEN EntryTries(gs, dest,
                  IF pieceType = "p" THEN PromotionLetter(cleanMove) ELSE Null)
  ELSE <<>>

\* Case 4: pawn captures
CaptureTries(cleanMove, gs) ==
  IF /\ FirstIdx(cleanMove, "x") # 0 /\ PieceTypeOf(cleanMove) = "p"
     /\ CountChar(cleanMove, "x") = 1
     /\ HasPieceOfType(gs, "p")
  THEN EntryTries(gs, StripCheck(AfterChar(cleanMove, "x")), Null)
  ELSE <<>>

\* the game.makeMove calls tryHandleCommonNotations makes, in order, until
\* one succeeds
CommonTries(cleanMove, gs) ==
  IF IsCastlingToken(cleanMove)
  THEN << <<CastlingFrom(gs.turn),
            CastlingDest(gs.turn, IsKingsideToken(cleanMove)), Null>> >>
  ELSE PromotionTries(cleanMove, gs, PromotionMatchAt(cleanMove))
       \o PieceTries(cleanMove, gs, PieceTypeOf(cleanMove), DestMatch(cleanMove))
       \o CaptureTries(cleanMove, gs)

\* the result of the first try game.makeMove accepts (k is its index)
TryAt(g, tries, k) ==
  IF k = 0 THEN Failure(g)
  ELSE GameMakeMove(g, tries[k][1], tries[k][2], tries[k][3])

TryMoves(g, tries) ==
  TryAt(g, tries,
        Least({i \in 1..Len(tries) :
                 ChessFindMove(g.pos, tries[i][1], tries[i][2], tries[i][3])
                   # NoMove}))

tryHandleCommonNotations(moveNotation, gs, g) ==
  TryMoves(g, CommonTries(StripEval(StripPeriod(Trim(moveNotation))), gs))

\* the (from, to) pairs of gameState.validMoves with to === dest, in loop order
PairsOf(e, dest) ==
  Flatten([k \in 1..Len(e.tos) |->
             IF e.tos[k] = dest THEN << <<e.from, dest>> >> ELSE <<>>])
PairsTo(gs, dest) ==
  Flatten([i \in 1..Len(gs.validMoves) |-> PairsOf(gs.validMoves[i], dest)])

\* the loop of tryHandleCaptureNotation: each pair is tried with
\* game.makeMove, and game.undoMove is called after a try that failed
RECURSIVE CaptureLoop(_, _, _)
CaptureLoop(g, pairs, k) ==
  IF k > Len(pairs) THEN Failure(g)
  ELSE IF ChessFindMove(g.pos, pairs[k][1], pairs[k][2], Null) # NoMove
  THEN GameMakeMove(g, pairs[k][1], pairs[k][2], Null)
  ELSE CaptureLoop(ChessUndo(g), pairs, k + 1)

CaptureDest(g, gs, dest) ==
  IF ~IsSquareName(dest) THEN Failure(g)
  ELSE CaptureLoop(g, PairsTo(gs, SqOf(dest[1], dest[2])), 1)

tryHandleCaptureNotation(moveNotation, gs, g) ==
  IF CountChar(moveNotation, "x") # 1 THEN Failure(g)
  ELSE CaptureDest(g, gs, StripCheck(AfterChar(moveNotation, "x")))

\* isPawnPromotionMove(from, to, gameState)
isPawnPromotionMove(from, to, gs) ==
  /\ gs.pos.board[from].t = "p"
  /\ \/ gs.pos.board[from].c = "w" /\ RowOf(to) = 0
     \/ gs.pos.board[from].c = "b" /\ RowOf(to) = 7

\* isKingCastlingMove(from, to, gameState)
isKingCastlingMove(from, to, gs) ==
  /\ gs.pos.board[from].t = "k"
  /\ RowOf(from) = RowOf(to)
  /\ Abs(ColOf(from) - ColOf(to)) = 2

(***************************************************************************)
(* Bounds and inputs                                                       *)
(***************************************************************************)
MaxGames == 2   \* ChessGame objects created by initGame / resetGame
MaxTasks == 2   \* timers and awaited calls pending at the same time
MaxPlies == 2   \* the human moves only while the history is shorter
MaxCalls == 2   \* the count of getLLMChessMove calls of an attempt saturates

\* The position of a new session's game.  It stands for a game in progress:
\* white Kh1, Na1, pawn d7; black Kh7, pawn b2; white to move.
StartPos ==
  [board |-> BoardOf({<<"h", "1", "w", "k">>, <<"a", "1", "w", "n">>,
                      <<"d", "7", "w", "p">>,
                      <<"h", "7", "b", "k">>, <<"b", "2", "b", "p">>}),
   turn |-> "w", castle |-> {}, ep |-> NoSquare]

\* the squares the human clicks
HumanSquares == {SqOf("d", "7"), SqOf("d", "8")}

\* What the LLM collaborator may answer (data.move): untrusted free text
LLMReplies ==
  { <<"K", "g", "7">>,                 \* a legal black move
    <<"b", "x", "a", "1">>,            \* a capture onto the last rank, no piece
    <<"O", "-", "O">>,                 \* castling, never legal here
    <<"I", " ", "g", "o">> }           \* prose without notation

(***************************************************************************)
(* State                                                                   *)
(***************************************************************************)
VARIABLES
  store,   \* the zustand store: gameState, game, isPlayerTurn, ...
  games,   \* the ChessGame objects created so far; store.game indexes them
  tasks,   \* pending timers and awaited calls, with what their closures hold
  probe    \* a request to the parse endpoint made on its own, and its answer

vars == <<store, games, tasks, probe>>

Idle == [pc |-> "idle", game |-> 0, gs |-> NoState, note |-> <<>>, calls |-> 0]

\* no request to the parse endpoint on its own
NoProbe ==
  [pc |-> "none", pos |-> 0, token |-> <<>>, answer |-> ParseError,
   enum |-> [game |-> 0, all |-> <<>>, k |-> 0]]

\* slot i holds an attempt: an awaited call or the retry timer of makeAIMove
InFlight(i) == tasks[i].pc \in {"llm", "parse", "timer1000", "llm2"}
FreeSlots == {i \in 1..MaxTasks : tasks[i].pc = "idle"}
FreeSlot == Least(FreeSlots)

\* the store as created: no game yet
InitStore ==
  /\ store = [gameState |-> NoState, game |-> 0, isPlayerTurn |-> TRUE,
              playerColor |-> "w", selectedSquare |-> NoSquare,
              validMoves |-> <<>>, isLoading |-> FALSE, error |-> Null,
              analysis |-> Null, isAnalysisLoading |-> FALSE]
  /\ games = <<>>
  /\ tasks = [i \in 1..MaxTasks |-> Idle]

Init == InitStore /\ probe = NoProbe

(***************************************************************************)
(* Store actions                                                           *)
(***************************************************************************)
\* setTimeout(() => get().requestLLMMove(), 500)
Timer500 == [Idle EXCEPT !.pc = "timer500"]

\* initGame(playerColor): a new ChessGame is put into the store
installGame(color) ==
  /\ Len(games) < MaxGames
  /\ color = "b" => FreeSlots # {}
  /\ games' = Append(games, NewGame(StartPos))
  /\ store' = [store EXCEPT !.game = Len(games) + 1,
                            !.gameState = GetState(NewGame(StartPos)),
                            !.playerColor = color,
                            !.isPlayerTurn = (color = "w"),
                            !.selectedSquare = NoSquare,
                            !.validMoves = <<>>,
                            !.error = Null]
  /\ tasks' = IF color = "b" THEN [tasks EXCEPT ![FreeSlot] = Timer500] ELSE tasks
  /\ UNCHANGED probe

\* the board calls initGame when it mounts and the store has no gameState
initGame(color) == store.gameState = NoState /\ installGame(color)

\* resetGame: initGame with the colour the store has
resetGame == \E color \in {store.playerColor} : installGame(color)

\* a rejected move that takes the turn from the human all the same
makeMoveDoneTakesTurn(result) ==
  IF ~result.success
  THEN /\ store' = [store EXCEPT !.error = "Invalid move",
                                 !.isLoading = FALSE,
                                 !.isPlayerTurn = FALSE,
                                 !.selectedSquare = NoSquare,
                                 !.validMoves = <<>>]
       /\ UNCHANGED <<games, tasks>>
  ELSE /\ games' = [games EXCEPT ![store.game] = result.game]
       /\ store' = [store EXCEPT !.gameState = result.state,
                                 !.selectedSquare = NoSquare,
                                 !.validMoves = <<>>,
                                 !.isPlayerTurn = FALSE,
                                 !.error = Null,
                                 !.isLoading = ~result.state.isGameOver]
       /\ IF result.state.isGameOver THEN UNCHANGED tasks
          ELSE /\ FreeSlots # {}
               /\ tasks' = [tasks EXCEPT ![FreeSlot] = Timer500]

\* what makeMove sets once game.makeMove has returned
makeMoveDone(result) ==
  IF ~result.success
  THEN /\ store' = [store EXCEPT !.error = "Invalid move",
                                 !.isLoading = FALSE,
                                 !.selectedSquare = NoSquare,
                                 !.validMoves = <<>>]
       /\ UNCHANGED <<games, tasks>>
  ELSE /\ games' = [games EXCEPT ![store.game] = result.game]
       /\ store' = [store EXCEPT !.gameState = result.state,
                                 !.selectedSquare = NoSquare,
                                 !.validMoves = <<>>,
                                 !.isPlayerTurn = FALSE,
                                 !.error = Null,
                                 !.isLoading = ~result.state.isGameOver]
       /\ IF result.state.isGameOver THEN UNCHANGED tasks
          ELSE /\ FreeSlots # {}
               /\ tasks' = [tasks EXCEPT ![FreeSlot] = Timer500]

\* the store's makeMove
makeMove(from, to, promotion) ==
  /\ store.game # 0
  /\ Len(games[store.game].history) < MaxPlies
  /\ makeMoveDone(GameMakeMove(games[store.game], from, to,
                    IF isPawnPromotionMove(from, to, store.gameState)
                       /\ promotion = Null
                    THEN "q" ELSE promotion))

selectSquare(square) ==
  /\ store.isPlayerTurn /\ store.gameState # NoState
  /\ store.gameState.turn = store.playerColor /\ ~store.gameState.isGameOver
  /\ IF /\ store.selectedSquare # NoSquare
        /\ \/ isKingCastlingMove(store.selectedSquare, square, store.gameState)
           \/ /\ store.selectedSquare # square
              /\ Contains(TosOf(store.gameState, store.selectedSquare), square)
     THEN makeMove(store.selectedSquare, square, Null)
     ELSE /\ store' =
               IF store.selectedSquare # square /\ HasEntry(store.gameState, square)
               THEN [store EXCEPT !.selectedSquare = square,
                                  !.validMoves = TosOf(store.gameState, square)]
               ELSE [store EXCEPT !.selectedSquare = NoSquare,
                                  !.validMoves = <<>>]
          /\ store.selectedSquare # NoSquare \/ HasEntry(store.gameState, square)
          /\ UNCHANGED <<games, tasks>>
  /\ UNCHANGED probe

undoMoveDone(result2) ==
  /\ games' = [games EXCEPT ![store.game] = result2.game]
  /\ store' = [store EXCEPT !.gameState = result2.state,
                            !.selectedSquare = NoSquare,
                            !.validMoves = <<>>,
                            !.isPlayerTurn = TRUE,
                            !.error = Null]
  /\ UNCHANGED tasks

\* undoMove: game.undoMove twice; neither call can report a failure
undoMove ==
  /\ store.game # 0
  /\ undoMoveDone(GameUndoMove(ChessUndo(games[store.game])))
  /\ UNCHANGED probe

(***************************************************************************)
(* The AI move: requestLLMMove and makeAIMove                              *)
(***************************************************************************)
\* set({gameState, isLoading: false, isPlayerTurn: true, error: null})
AppliedStore(state) ==
  [store EXCEPT !.gameState = state, !.isLoading = FALSE,
                !.isPlayerTurn = TRUE, !.error = Null]

\* the catch block forgets to give the turn back
FailedStoreNoTurn ==
  [store EXCEPT !.error = "AI move error", !.isLoading = FALSE]

\* the set of the catch blocks of requestLLMMove and of the retry timer
FailedStore ==
  [store EXCEPT !.error = "AI move error", !.isLoading = FALSE,
                !.isPlayerTurn = TRUE]

\* set({error: 'Could not parse move ... Trying again...', isLoading: true})
RetryStore ==
  [store EXCEPT !.error = "Could not parse move. Trying again...",
                !.isLoading = TRUE]

\* the 500 ms timer fires: requestLLMMove up to its await
requestLLMMove(i) ==
  /\ tasks[i].pc = "timer500"
  /\ IF store.game = 0
     THEN /\ tasks' = [tasks EXCEPT ![i] = Idle]
          /\ UNCHANGED store
     ELSE /\ store' = [store EXCEPT !.isLoading = TRUE, !.error = Null]
          /\ tasks' = [tasks EXCEPT ![i] =
                         [pc |-> "llm", game |-> store.game,
                          gs |-> store.gameState, note |-> <<>>, calls |-> 1]]
  /\ UNCHANGED <<games, probe>>

\* a move was applied for the AI: the game has it and the store is set
Applied(i, result) ==
  /\ games' = [games EXCEPT ![tasks[i].game] = result.game]
  /\ store' = AppliedStore(result.state)
  /\ tasks' = [tasks EXCEPT ![i] = Idle]

\* getLLMChessMove threw: the catch block ends the attempt
attemptFails(i) ==
  /\ store' = FailedStore
  /\ tasks' = [tasks EXCEPT ![i] = Idle]
  /\ UNCHANGED games

\* makeAIMove once tryHandleCommonNotations has returned: done, or the
\* cleaned notation is sent to the parse endpoint
makeAIMoveTried(i, moveNotation, common) ==
  IF common.success THEN Applied(i, common)
  ELSE /\ tasks' = [tasks EXCEPT ![i].pc = "parse", ![i].note = moveNotation]
       /\ UNCHANGED <<store, games>>

\* makeAIMove(moveNotation, gameState, game, set) up to its await
makeAIMove(i, moveNotation) ==
  makeAIMoveTried(i, moveNotation,
    tryHandleCommonNotations(moveNotation, tasks[i].gs, games[tasks[i].game]))

\* getLLMChessMove of requestLLMMove returns or throws
llmResponds(i, replies) ==
  /\ tasks[i].pc = "llm"
  /\ \/ attemptFails(i)
     \/ \E reply \in replies : makeAIMove(i, Trim(reply))
  /\ UNCHANGED probe

\* the catch block of makeAIMove, capture being what
\* tryHandleCaptureNotation returned
makeAIMoveCatch(i, capture) ==
  IF capture.success THEN Applied(i, capture)
  ELSE /\ games' = [games EXCEPT ![tasks[i].game] = capture.game]
       /\ store' = RetryStore
       /\ tasks' = [tasks EXCEPT ![i].pc = "timer1000", ![i].note = <<>>]

\* the move the endpoint resolved is given to game.makeMove
makeAIMoveApply(i, result, capture) ==
  IF result.success THEN Applied(i, result) ELSE makeAIMoveCatch(i, capture)

makeAIMoveParsed(i, parsedMove, capture) ==
  \/ makeAIMoveCatch(i, capture)          \* the request itself failed
  \/ IF parsedMove.ok
     THEN makeAIMoveApply(i,
            GameMakeMove(games[tasks[i].game], parsedMove.from,
                         parsedMove.to, parsedMove.promotion),
            capture)
     ELSE makeAIMoveCatch(i, capture)     \* the endpoint answered an error

\* parseChessMove returns or throws: the rest of makeAIMove
parseResponds(i) ==
  /\ tasks[i].pc = "parse"
  /\ makeAIMoveParsed(i,
       ParseMove(tasks[i].gs, CleanedMove(tasks[i].note)),
       tryHandleCaptureNotation(tasks[i].note, tasks[i].gs,
                                games[tasks[i].game]))
  /\ UNCHANGED probe

\* the 1000 ms timer fires: getLLMChessMove is called again
retryTimer(i) ==
  /\ tasks[i].pc = "timer1000"
  /\ tasks' = [tasks EXCEPT ![i].pc = "llm2",
                           ![i].calls = IF @ < MaxCalls THEN @ + 1 ELSE MaxCalls]
  /\ UNCHANGED <<store, games, probe>>

\* getLLMChessMove of the retry returns or throws
llmRetryResponds(i, replies) ==
  /\ tasks[i].pc = "llm2"
  /\ \/ attemptFails(i)
     \/ \E reply \in replies : makeAIMove(i, extractMoveNotation(reply))
  /\ UNCHANGED probe

Next ==
  \/ \E color \in {"w", "b"} : initGame(color)
  \/ \E square \in HumanSquares : selectSquare(square)
  \/ undoMove
  \/ \E i \in 1..MaxTasks : requestLLMMove(i)
  \/ \E i \in 1..MaxTasks : llmResponds(i, LLMReplies)
  \/ \E i \in 1..MaxTasks : parseResponds(i)
  \/ \E i \in 1..MaxTasks : retryTimer(i)
  \/ \E i \in 1..MaxTasks : llmRetryResponds(i, LLMReplies)

Spec == Init /\ [][Next]_vars

\* the call awaited in slot i returns or throws: the slot is not awaiting
\* forever
Returns(i) == []<>(tasks[i].pc \notin {"llm", "parse", "llm2"})

\* every timer fires, and every awaited call returns or throws
FairSpec ==
  /\ Spec
  /\ \A i \in 1..MaxTasks :
       /\ WF_vars(requestLLMMove(i))
       /\ WF_vars(retryTimer(i))
       /\ Returns(i)

(***************************************************************************)
(* The parse endpoint on its own                                           *)
(***************************************************************************)
\* the positions asked about: StartPos; StartPos after d8=Q, black to move
\* and its pawn promoting on a1 or b1; a position where white may not castle
\* because a knight stands on g1; one where white may castle and both
\* knights reach d2; one where a bishop and a pawn both capture on c3; one
\* where both sides may castle on either wing, white to move and black to move
MatchPositions ==
  << StartPos,
     [board |-> BoardOf({<<"h", "1", "w", "k">>, <<"a", "1", "w", "n">>,
                         <<"d", "8", "w", "q">>,
                         <<"h", "7", "b", "k">>, <<"b", "2", "b", "p">>}),
      turn |-> "b", castle |-> {}, ep |-> NoSquare],
     [board |-> BoardOf({<<"e", "1", "w", "k">>, <<"h", "1", "w", "r">>,
                         <<"g", "1", "w", "n">>, <<"e", "2", "w", "p">>,
                         <<"e", "8", "b", "k">>}),
      turn |-> "w", castle |-> {"K"}, ep |-> NoSquare],
     [board |-> BoardOf({<<"e", "1", "w", "k">>, <<"h", "1", "w", "r">>,
                         <<"b", "1", "w", "n">>, <<"f", "3", "w", "n">>,
                         <<"e", "8", "b", "k">>}),
      turn |-> "w", castle |-> {"K"}, ep |-> NoSquare],
     [board |-> BoardOf({<<"h", "1", "w", "k">>, <<"d", "4", "w", "b">>,
                         <<"b", "2", "w", "p">>,
                         <<"h", "7", "b", "k">>, <<"c", "3", "b", "n">>}),
      turn |-> "w", castle |-> {}, ep |-> NoSquare],
     [board |-> BoardOf({<<"e", "1", "w", "k">>, <<"a", "1", "w", "r">>,
                         <<"h", "1", "w", "r">>,
                         <<"e", "8", "b", "k">>, <<"a", "8", "b", "r">>,
                         <<"h", "8", "b", "r">>}),
      turn |-> "w", castle |-> {"K", "Q", "k", "q"}, ep |-> NoSquare],
     [board |-> BoardOf({<<"e", "1", "w", "k">>, <<"a", "1", "w", "r">>,
                         <<"h", "1", "w", "r">>,
                         <<"e", "8", "b", "k">>, <<"a", "8", "b", "r">>,
                         <<"h", "8", "b", "r">>}),
      turn |-> "b", castle |-> {"K", "Q", "k", "q"}, ep |-> NoSquare] >>

\* tokens asked in every position besides the SAN of its moves: coordinate
\* formats, castling, a piece and a destination, a rank disambiguator
CoordTokens ==
  { <<"e", "2", "e", "5">>, <<"e", "2", "e", "4">>,
    <<"N", "g", "1", "-", "f", "6">>,
    <<"d", "7", "d", "8", "=", "Q">>,
    <<"O", "-", "O">>, <<"O", "-", "O", "-", "O">>,
    <<"0", "-", "0">>, <<"0", "-", "0", "-", "0">>,
    <<"N", "d", "2">>, <<"N", "1", "d", "2">> }

\* the SAN chess.js gives each legal move of a position
SansIn(pos, ms) == {San(pos, ms[k]) : k \in 1..Len(ms)}
SansOf(pos) == SansIn(pos, AllMoves(pos))

\* the gameState a caller of parseChessMove sends for a position
ProbeState == GetState(NewGame(MatchPositions[probe.pos]))

ProbeInputs ==
  UNION {{[pc |-> "asked", pos |-> p, token |-> t, answer |-> ParseError,
            enum |-> NoProbe.enum] :
            t \in SansOf(MatchPositions[p]) \cup CoordTokens} :
         p \in 1..Len(MatchPositions)}

MatchInit == InitStore /\ probe \in ProbeInputs

\* the temporary game and the candidates when the handler returns: the
\* enumeration runs only for a token neither coordinate pattern matches
TempGame(gs, moveNotation) ==
  IF \/ moveNotation = <<>>
     \/ DirectMatchAt(Trim(moveNotation)) # 0
     \/ ExtendedMatchAt(Trim(moveNotation)) # 0
  THEN [game |-> NewGame(gs.pos), all |-> <<>>, k |-> 0]
  ELSE Enumeration(gs)

\* POST /api/chess/parse-move
POST ==
  /\ probe.pc = "asked"
  /\ probe' = [probe EXCEPT !.pc = "answered",
                            !.answer = ParseMove(ProbeState, probe.token),
                            !.enum = TempGame(ProbeState, probe.token)]
  /\ UNCHANGED <<store, games, tasks>>

MatchNext == POST

MatchSpec == MatchInit /\ [][MatchNext]_vars

(***************************************************************************)
(* The clean-up of a move notation on its own                              *)
(***************************************************************************)
MaxText == 3   \* the length of the texts cleaned

\* the characters of the texts: a letter, the period, the evaluation marks
\* and the space
NormChars == {"e", ".", "!", "?", " "}

NormInit ==
  /\ InitStore
  /\ probe \in {[NoProbe EXCEPT !.pc = "raw", !.token = t] :
                  t \in UNION {[1..n -> NormChars] : n \in 0..MaxText}}

\* const cleanedMove = moveNotation.trim().replace(...)...
normalize ==
  /\ probe.pc = "raw"
  /\ probe' = [probe EXCEPT !.pc = "clean", !.token = CleanedMove(probe.token)]
  /\ UNCHANGED <<store, games, tasks>>

NormNext == normalize

NormSpec == NormInit /\ [][NormNext]_vars

(***************************************************************************)
(* A ChessGame on its own: makeMove, then undoMove                         *)
(***************************************************************************)
MaxHeld == 1   \* moves already played on the game that is held

\* a ChessGame holding one of the positions, no move played on it yet
UndoInit ==
  /\ InitStore
  /\ probe \in {[pc |-> "held", held |-> NewGame(MatchPositions[p]),
                 game |-> NewGame(MatchPositions[p]), state |-> NoState]
                  : p \in 1..Len(MatchPositions)}

\* what follows ChessGame.makeMove on the game held: an accepted move is
\* the move to undo, or, while the history is short, gives another game to
\* hold
gameMoved(result) ==
  /\ result.success
  /\ \/ probe' = [probe EXCEPT !.pc = "made", !.game = result.game,
                              !.state = result.state]
     \/ /\ Len(probe.held.history) < MaxHeld
        /\ probe' = [probe EXCEPT !.held = result.game, !.game = result.game]

\* ChessGame.makeMove(from, to, promotion) on the game held, for the pairs
\* of its legal-move map that start on from
gameMakeMove(from, ms) ==
  /\ probe.pc = "held"
  /\ \E k \in 1..Len(ms), promotion \in {Null, "q"} :
       gameMoved(GameMakeMove(probe.game, from, ms[k].to, promotion))
  /\ UNCHANGED <<store, games, tasks>>

\* ChessGame.undoMove on the game the move was made on
gameUndoMove(result) ==
  /\ probe.pc = "made"
  /\ probe' = [probe EXCEPT !.pc = "undone", !.game = result.game,
                            !.state = result.state]
  /\ UNCHANGED <<store, games, tasks>>

UndoNext ==
  \/ \E from \in Squares : gameMakeMove(from, MovesFrom(probe.game.pos, from))
  \/ gameUndoMove(GameUndoMove(probe.game))

UndoSpec == UndoInit /\ [][UndoNext]_vars

(***************************************************************************)
(* Sessions in progress on other positions, with resetGame                 *)
(***************************************************************************)
\* the positions the games of these sessions hold:
\* 1: white Ke1; black Kh8, pawn e2; white to move (Kxe2 leaves king
\*    against king);
\* 2: white Ke1, Nf7, pawn d7; black Ka5; white to move
SessionPositions ==
  << [board |-> BoardOf({<<"e", "1", "w", "k">>,
                         <<"h", "8", "b", "k">>, <<"e", "2", "b", "p">>}),
      turn |-> "w", castle |-> {}, ep |-> NoSquare],
     [board |-> BoardOf({<<"e", "1", "w", "k">>, <<"f", "7", "w", "n">>,
                         <<"d", "7", "w", "p">>, <<"a", "5", "b", "k">>}),
      turn |-> "w", castle |-> {}, ep |-> NoSquare] >>

\* the squares the human clicks in these sessions
SessionSquares ==
  {SqOf("e", "1"), SqOf("g", "1"), SqOf("d", "2"), SqOf("e", "2"),
   SqOf("a", "5"), SqOf("a", "4")}

\* what the LLM answers in these sessions
SessionReplies ==
  { <<"K", "d", "2">>,                 \* a legal move of the white king
    <<"Q", "x", "d", "8">> }           \* a capture by a piece white has not

\* the store, the game and the timer as initGame(color) leaves them, the new
\* game holding a session position: the human has white on the first
\* position, black on the second
SessionInit ==
  /\ \E s \in {<<1, "w">>, <<2, "b">>} :
       /\ store = [gameState |-> GetState(NewGame(SessionPositions[s[1]])),
                   game |-> 1,
                   isPlayerTurn |-> (s[2] = "w"), playerColor |-> s[2],
                   selectedSquare |-> NoSquare, validMoves |-> <<>>,
                   isLoading |-> FALSE, error |-> Null,
                   analysis |-> Null, isAnalysisLoading |-> FALSE]
       /\ games = <<NewGame(SessionPositions[s[1]])>>
       /\ tasks = [i \in 1..MaxTasks |->
                     IF s[2] = "b" /\ i = 1 THEN Timer500 ELSE Idle]
  /\ probe = NoProbe

SessionNext ==
  \/ \E square \in SessionSquares : selectSquare(square)
  \/ undoMove
  \/ resetGame
  \/ \E i \in 1..MaxTasks : requestLLMMove(i)
  \/ \E i \in 1..MaxTasks : llmResponds(i, SessionReplies)
  \/ \E i \in 1..MaxTasks : parseResponds(i)
  \/ \E i \in 1..MaxTasks : retryTimer(i)
  \/ \E i \in 1..MaxTasks : llmRetryResponds(i, SessionReplies)

SessionSpec == SessionInit /\ [][SessionNext]_vars

(***************************************************************************)
(* The position analysis: requestAnalysis                                  *)
(***************************************************************************)
\* the Analyze button, disabled while isAnalysisLoading or without a
\* gameState, and requestAnalysis up to its await
requestAnalysis ==
  /\ ~store.isAnalysisLoading /\ store.gameState # NoState
  /\ store.game # 0
  /\ FreeSlots # {}
  /\ store' = [store EXCEPT !.isAnalysisLoading = TRUE]
  /\ tasks' = [tasks EXCEPT ![FreeSlot] =
                 [Idle EXCEPT !.pc = "analysis", !.game = store.game,
                              !.gs = store.gameState]]
  /\ UNCHANGED <<games, probe>>

\* getLLMChessAnalysis returns or throws: the rest of requestAnalysis
analysisResponds(i) ==
  /\ tasks[i].pc = "analysis"
  /\ \/ \E text \in {"White is better", "Black should take on a1"} :
          store' = [store EXCEPT !.analysis = text]
     \/ store' = [store EXCEPT !.error = "Analysis error",
                               !.isAnalysisLoading = FALSE]
  /\ tasks' = [tasks EXCEPT ![i] = Idle]
  /\ UNCHANGED <<games, probe>>

\* the human's side of a session, with the analysis: the LLM never answers
AnalysisNext ==
  \/ \E color \in {"w", "b"} : initGame(color)
  \/ \E square \in HumanSquares : selectSquare(square)
  \/ undoMove
  \/ resetGame
  \/ \E i \in 1..MaxTasks : requestLLMMove(i)
  \/ requestAnalysis
  \/ \E i \in 1..MaxTasks : analysisResponds(i)

AnalysisSpec == Init /\ [][AnalysisNext]_vars

(***************************************************************************)
(* Properties                                                              *)
(***************************************************************************)
\* C1: within one attempt at most one regenerated suggestion is requested
\* from the LLM: the retry timer, which issues the regenerated
\* getLLMChessMove call, fires only in an attempt that has made one call.
C1_OneRegeneratedSuggestion ==
  [][\A i \in 1..MaxTasks :
       (tasks[i].pc = "timer1000" /\ tasks'[i].pc = "llm2")
         => tasks[i].calls = 1]_vars

\* C2: when every timer fires and every call returns, every attempt started
\* by requestLLMMove eventually ends, whatever the LLM answers.
C2_AttemptTerminates ==
  \A i \in 1..MaxTasks : (tasks[i].pc = "llm") ~> (tasks[i].pc = "idle")

\* C3: a failed step of an attempt (the catch block of makeAIMove that ends
\* with the retry scheduled) leaves every game's position and history as
\* they were.
C3_FailedStepKeepsGame ==
  [][\A i \in 1..MaxTasks :
       (tasks[i].pc = "parse" /\ tasks'[i].pc = "timer1000")
         => games' = games]_vars

\* C4: at most one attempt (a requestLLMMove/makeAIMove chain with its retry
\* timer) is in flight against a game.
C4_OneAttemptInFlight ==
  \A i, j \in 1..MaxTasks :
    (InFlight(i) /\ InFlight(j) /\ tasks[i].game = tasks[j].game) => i = j

\* C5: while isLoading is true a selectSquare on a legal destination is
\* ignored: it applies no move to the game and starts no AI request.
C5_BusyIgnoresMoves ==
  [][(store.isLoading /\ \E square \in HumanSquares : selectSquare(square))
       => (games' = games /\ tasks' = tasks)]_vars

\* C6: after an attempt ended in terminal failure the human can act: a
\* selectSquare on some square is not ignored.
C6_HumanActsAfterFailure ==
  (store.error = "AI move error")
    => ENABLED (\E square \in Squares : selectSquare(square))

\* the step that ends an attempt without a move applied
FailureStep(i) ==
  /\ tasks[i].pc \in {"llm", "llm2"}
  /\ tasks'[i].pc = "idle"
  /\ games' = games

\* C7 as stated: at terminal failure the store holds an error, isLoading is
\* false, isPlayerTurn is true and gameState is the one the attempt started
\* with.
C7_FailureRestoresStart ==
  [][\A i \in 1..MaxTasks :
       FailureStep(i)
         => /\ store'.error # Null
            /\ ~store'.isLoading
            /\ store'.isPlayerTurn
            /\ store'.gameState = tasks[i].gs]_vars

\* C7 amended: at terminal failure the store holds an error, isLoading is
\* false, isPlayerTurn is true and the failing step leaves gameState and the
\* games as they were before it.
C7_FailureKeepsState ==
  [][\A i \in 1..MaxTasks :
       FailureStep(i)
         => /\ store'.error # Null
            /\ ~store'.isLoading
            /\ store'.isPlayerTurn
            /\ store'.gameState = store.gameState]_vars

\* an attempt ended in terminal failure after the human undid the move it
\* was answering
C7_Witness ==
  /\ store.error = "AI move error"
  /\ ~store.isLoading
  /\ store.isPlayerTurn
  /\ store.gameState # NoState
  /\ store.gameState.history = <<>>
  /\ store.playerColor = "w"

\* the endpoint resolved the notation of task i and game.makeMove rejects
\* the move it resolved
OracleRejects(i, parsedMove) ==
  /\ parsedMove.ok
  /\ ChessFindMove(games[tasks[i].game].pos, parsedMove.from, parsedMove.to,
                   parsedMove.promotion) = NoMove

\* C8: when game.makeMove rejects the move the endpoint resolved, the attempt
\* ends there in failure: no fallback changes anything and no retry is
\* scheduled.
C8_RejectionFailsDirectly ==
  [][\A i \in 1..MaxTasks :
       (/\ tasks[i].pc = "parse"
        /\ tasks'[i].pc # "parse"
        /\ OracleRejects(i, ParseMove(tasks[i].gs, CleanedMove(tasks[i].note))))
         => /\ tasks'[i].pc = "idle"
            /\ store'.error # Null
            /\ ~store'.isLoading]_vars

\* C9: every (from, to) the parse endpoint returns is in the legal-move map
\* of the position it was given.
C9_ParseReturnsLegal ==
  (probe.pc = "answered" /\ probe.answer.ok)
    => Contains(TosOf(ProbeState, probe.answer.from), probe.answer.to)

\* the answer resolves the token to move m
ResolvesTo(answer, m) ==
  /\ answer.ok
  /\ answer.from = m.from
  /\ answer.to = m.to
  /\ m.promo # "-" => answer.promotion = m.promo

ExactSanResolved(pos, ms) ==
  \A k \in 1..Len(ms) :
    San(pos, ms[k]) = probe.token => ResolvesTo(probe.answer, ms[k])

\* C10: the exact SAN of a legal move resolves to the from and to squares of
\* that move, with its promotion piece when it is a promotion.
C10_ExactSanResolves ==
  probe.pc = "answered"
    => ExactSanResolved(MatchPositions[probe.pos],
                        AllMoves(MatchPositions[probe.pos]))

\* the handler answered a token that neither coordinate pattern matches, so
\* the enumeration ran
Enumerating ==
  /\ probe.pc = "answered"
  /\ probe.token # <<>>
  /\ DirectMatchAt(Trim(probe.token)) = 0
  /\ ExtendedMatchAt(Trim(probe.token)) = 0

\* C11: when a candidate's SAN equals the token exactly, that candidate is
\* the one returned, even if an earlier candidate matches the token only
\* case-insensitively or by piece and destination.
C11_ExactMatchWins ==
  Enumerating
    => \A k \in 1..Len(probe.enum.all) :
         probe.enum.all[k].san = probe.token
           => /\ probe.answer.ok
              /\ probe.answer.from = probe.enum.all[k].from
              /\ probe.answer.to = probe.enum.all[k].to

\* the king's square and the square the castling token names for the side to
\* move, and whether that castling move is in the legal-move map
CastleFromSq == SqOf("e", IF ProbeState.turn = "w" THEN "1" ELSE "8")
CastleToSq ==
  SqOf(IF ToLower(probe.token) \in {<<"o", "-", "o">>, <<"0", "-", "0">>}
       THEN "g" ELSE "c",
       IF ProbeState.turn = "w" THEN "1" ELSE "8")
CastlingIsLegal ==
  /\ ProbeState.pos.board[CastleFromSq] = Pc(ProbeState.turn, "k")
  /\ Contains(TosOf(ProbeState, CastleFromSq), CastleToSq)

\* C12: a castling token whose castling move is in the legal-move map
\* resolves to the king's square (e1 or e8) and to g1/g8 (kingside) or c1/c8
\* (queenside) for the side to move.
C12_CastlingResolves ==
  (probe.pc = "answered" /\ IsCastlingToken(probe.token) /\ CastlingIsLegal)
    => /\ probe.answer.ok
       /\ probe.answer.from = CastleFromSq
       /\ probe.answer.to = CastleToSq

\* black castles queenside on the token 0-0-0, which is not the SAN
C12_Witness ==
  /\ probe.pc = "answered"
  /\ probe.token = <<"0", "-", "0", "-", "0">>
  /\ ProbeState.turn = "b"
  /\ CastlingIsLegal
  /\ probe.answer.ok
  /\ probe.answer.from = SqOf("e", "8")
  /\ probe.answer.to = SqOf("c", "8")

\* C13: a castling token whose castling move is not in the legal-move map
\* gets no (from, to) pair from the parse endpoint.
C13_IllegalCastlingFails ==
  (probe.pc = "answered" /\ IsCastlingToken(probe.token) /\ ~CastlingIsLegal)
    => ~probe.answer.ok

\* the candidates of the token's piece that move to the square at index i of
\* the token
PieceHits(i) ==
  SelectSeq(probe.enum.all,
            LAMBDA m : /\ m.san[1] = probe.token[1]
                       /\ SqName(m.to) = SubSeq(probe.token, i, i + 1))

\* C14: a piece+destination token that matches several candidates resolves
\* to the first of them in enumeration order and the ambiguity warning is
\* recorded; with exactly one matching candidate no warning is recorded.
C14_AmbiguityWarned ==
  (Enumerating /\ IsPieceAndDest(probe.token))
    => /\ Len(PieceHits(2)) > 1
            => /\ probe.answer.ok
               /\ probe.answer.from = PieceHits(2)[1].from
               /\ probe.answer.to = PieceHits(2)[1].to
               /\ probe.answer.warning
       /\ Len(PieceHits(2)) = 1 => ~probe.answer.warning

\* the candidates of PieceHits(3) whose origin square has the token's
\* disambiguator as its file or as its rank
OwnHits ==
  SelectSeq(PieceHits(3),
            LAMBDA m : IF IsFile(probe.token[2])
                       THEN SqName(m.from)[1] = probe.token[2]
                       ELSE SqName(m.from)[2] = probe.token[2])

\* C15: a token piece + disambiguator + destination, with several candidates
\* of the piece reaching the destination and exactly one of them on the
\* disambiguator's file or rank, resolves to that candidate.
C15_DisambiguatorResolves ==
  (Enumerating /\ IsDisambiguated(probe.token)
     /\ Len(PieceHits(3)) > 1 /\ Len(OwnHits) = 1)
    => /\ probe.answer.ok
       /\ probe.answer.from = OwnHits[1].from
       /\ probe.answer.to = OwnHits[1].to

\* the index of the first "=" of the token when a piece letter follows it
PromotionMark ==
  IF /\ FirstIdx(probe.token, "=") # 0
     /\ FirstIdx(probe.token, "=") < Len(probe.token)
     /\ LowerChar(probe.token[FirstIdx(probe.token, "=") + 1])
          \in {"q", "r", "b", "n"}
  THEN FirstIdx(probe.token, "=") ELSE 0

\* C16: when the token has "=" followed by a piece letter, the move returned
\* carries that piece, lower-cased, as its promotion, whatever matched.
C16_PromotionAttached ==
  (probe.pc = "answered" /\ probe.answer.ok /\ PromotionMark # 0)
    => probe.answer.promotion = LowerChar(probe.token[PromotionMark + 1])

\* a try handed to game.makeMove carries a promotion piece exactly when it
\* moves a pawn onto the last rank
CarriesPromotion(gs, try) ==
  (try[3] # Null) <=> isPawnPromotionMove(try[1], try[2], gs)

\* the human's move was applied in this step: m is the move played
HumanMoved(m) ==
  /\ (m.promo # "-") <=> isPawnPromotionMove(m.from, m.to, store.gameState)
  /\ m.promo \in {"-", "q"}

\* C17: every move handed to game.makeMove carries a promotion piece if and
\* only if it moves a pawn onto the last rank, queen when no letter was
\* given: the human's move that is applied, and each move the notation
\* heuristics of makeAIMove try before the notation goes to the endpoint.
C17_PromotionIffLastRank ==
  [][/\ (store.game # 0 /\ store'.game = store.game
           /\ store.isPlayerTurn /\ ~store'.isPlayerTurn)
        => HumanMoved(games'[store.game].history[
                        Len(games'[store.game].history)])
     /\ \A i \in 1..MaxTasks :
          (tasks[i].pc \in {"llm", "llm2"} /\ tasks'[i].pc = "parse")
            => \A k \in 1..Len(CommonTries(
                              StripEval(StripPeriod(Trim(tasks'[i].note))),
                              tasks[i].gs)) :
                 CarriesPromotion(tasks[i].gs,
                   CommonTries(StripEval(StripPeriod(Trim(tasks'[i].note))),
                               tasks[i].gs)[k])]_vars

\* C18: cleaning a move notation that was already cleaned returns it
\* unchanged.
C18_NormalizeIdempotent ==
  probe.pc = "clean" => CleanedMove(probe.token) = probe.token

\* C19: after the enumeration the temporary game has the position, the side
\* to move and the history it had before: each test move was undone and
\* nothing was undone for a rejected pair.
C19_EnumerationRestoresGame ==
  Enumerating => probe.enum.game = NewGame(MatchPositions[probe.pos])

\* the enumeration ran over the position with the pawn on d7: moves were
\* tried and undone, the promotion pairs were rejected
C19_Witness ==
  /\ Enumerating
  /\ probe.pos = 1
  /\ probe.enum.k > Len(probe.enum.all)
  /\ Len(probe.enum.all) > 1
  /\ probe.enum.game = NewGame(StartPos)

\* C20: the enumeration yields a candidate for every (from, to) pair of the
\* legal-move map, pawn moves onto the last rank included.
C20_EnumerationExhaustive ==
  Enumerating
    => \A i \in 1..Len(ProbeState.validMoves) :
         \A k \in 1..Len(ProbeState.validMoves[i].tos) :
           \E c \in 1..Len(probe.enum.all) :
             /\ probe.enum.all[c].from = ProbeState.validMoves[i].from
             /\ probe.enum.all[c].to = ProbeState.validMoves[i].tos[k]

\* the awaited call of slot i itself failed in this step: getLLMChessMove
\* threw, or parseChessMove threw and makeAIMove's catch block ran
CollaboratorFailed(i) ==
  \/ tasks[i].pc \in {"llm", "llm2"} /\ attemptFails(i)
  \/ /\ tasks[i].pc = "parse"
     /\ makeAIMoveCatch(i, tryHandleCaptureNotation(tasks[i].note, tasks[i].gs,
                                                    games[tasks[i].game]))

\* C21: when the LLM call or the parse call itself fails, the attempt ends
\* there with an error shown, isLoading false and the turn given to the
\* human.
C21_CollaboratorFailureEnds ==
  [][\A i \in 1..MaxTasks :
       CollaboratorFailed(i)
         => /\ tasks'[i].pc = "idle"
            /\ store'.error # Null
            /\ ~store'.isLoading
            /\ store'.isPlayerTurn]_vars

\* C22: undoMove with fewer than two moves applied: the second game.undoMove
\* reports a failure, and the store shows the state after the first one.
C22_PartialUndoVisible ==
  [][(store.game # 0 /\ Len(games[store.game].history) < 2 /\ undoMove)
       => /\ ~GameUndoMove(ChessUndo(games[store.game])).success
          /\ store'.gameState = GetState(ChessUndo(games[store.game]))]_vars

\* C28: whenever nothing is in progress (isLoading false, no timer and no
\* awaited call pending), the store's gameState is the state of the game
\* object in the store.
C28_StoreShowsGame ==
  (store.game # 0 /\ ~store.isLoading /\ \A i \in 1..MaxTasks : tasks[i].pc = "idle")
    => store.gameState = GetState(games[store.game])

AppliedIn(i) ==
  /\ tasks[i].pc \in {"llm", "parse", "llm2"}
  /\ tasks'[i].pc = "idle"
  /\ store'.error = Null

\* C24: when an attempt applies a move for the AI, the store's gameState is
\* the state of the game after the move, isLoading is false, error is null,
\* isPlayerTurn is true, and the game's history is one move longer than it
\* was before the step.
C24_AppliedAddsOneMove ==
  [][\A i \in 1..MaxTasks :
       AppliedIn(i)
         => /\ store'.gameState = GetState(games'[tasks[i].game])
            /\ ~store'.isLoading
            /\ store'.isPlayerTurn
            /\ Len(games'[tasks[i].game].history)
                 = Len(games[tasks[i].game].history) + 1]_vars

\* the click on square hands a move to the store's makeMove and the game
\* rejects it
Rejected(square) ==
  /\ store.game # 0
  /\ store.selectedSquare # NoSquare
  /\ \/ isKingCastlingMove(store.selectedSquare, square, store.gameState)
     \/ /\ store.selectedSquare # square
        /\ Contains(TosOf(store.gameState, store.selectedSquare), square)
  /\ ~GameMakeMove(games[store.game], store.selectedSquare, square,
                   IF isPawnPromotionMove(store.selectedSquare, square,
                                          store.gameState)
                   THEN "q" ELSE Null).success
  /\ selectSquare(square)

\* C25: a move of the human that the game rejects leaves gameState, the
\* game and isPlayerTurn unchanged, sets error, leaves isLoading false,
\* clears the selection and arms no timer.
C25_RejectedMoveChangesNothing ==
  [][\A square \in SessionSquares :
       Rejected(square)
         => /\ store'.gameState = store.gameState
            /\ games' = games
            /\ store'.isPlayerTurn = store.isPlayerTurn
            /\ store'.error # Null
            /\ ~store'.isLoading
            /\ store'.selectedSquare = NoSquare
            /\ store'.validMoves = <<>>
            /\ tasks' = tasks]_vars

\* the king was selected and g1 clicked: the move was rejected, the turn and
\* the position are the human's as before
C25_Witness ==
  /\ store.error = "Invalid move"
  /\ store.isPlayerTurn
  /\ store.selectedSquare = NoSquare
  /\ store.game = 1
  /\ store.gameState = GetState(NewGame(SessionPositions[1]))

C27_AIPlaysOwnColour ==
  [][\A i \in 1..MaxTasks :
       AppliedIn(i)
         => games'[tasks[i].game].past[
              Len(games'[tasks[i].game].past)].turn # store.playerColor]_vars

\* C29: an attempt working on a game that is not the one in the store sets
\* neither gameState nor isLoading nor isPlayerTurn.
C29_OldAttemptSilent ==
  [][\A i \in 1..MaxTasks :
       (tasks[i].pc \in {"llm", "parse", "llm2"} /\ tasks'[i] # tasks[i]
          /\ tasks[i].game # store.game)
         => /\ store'.gameState = store.gameState
            /\ store'.isLoading = store.isLoading
            /\ store'.isPlayerTurn = store.isPlayerTurn]_vars

\* C30: once the analysis call of a requestAnalysis has returned or thrown,
\* isAnalysisLoading is false, so that the analysis can be requested again.
C30_AnalysisLoadingCleared ==
  [][\A i \in 1..MaxTasks :
       (tasks[i].pc = "analysis" /\ tasks'[i].pc = "idle")
         => ~store'.isAnalysisLoading]_vars
====
